---- MODULE Spec2Model ----
(***************************************************************************)
(* Object-vision-hub: the useObjectDetection hook (iou, nms, model load,   *)
(* startDetection / loop / stopDetection) and the Index page that drives   *)
(* it (startCamera, stopCamera, unmount cleanup).                          *)
(*                                                                         *)
(* Numbers.  Box coordinates are small naturals.  A score is a natural     *)
(* number of hundredths (0.9 is 90).  A threshold is a pair <<n, d>>       *)
(* standing for n/d, with d a power of two so that the double is exact.    *)
(* The double returned by iou is modelled as a record: kind "num" with     *)
(* numerator and denominator, or kind "NaN" (0/0).  Comparisons with NaN   *)
(* are false, as in IEEE-754.                                              *)
(*                                                                         *)
(* Handles.  Every startDetection call that passes the model check takes a *)
(* session slot: its loop callback and its setInterval timer.  A loop has  *)
(* at most one requestAnimationFrame handle pending, and animFrameRef      *)
(* holds the handle of the last request, so the ref is modelled as the     *)
(* session that made the last request: that handle is pending exactly when *)
(* the session's loop is "scheduled".  fpsInterval likewise names the      *)
(* session of the last setInterval call.  A slot whose loop and timer are  *)
(* both gone is free again.                                                *)
(*                                                                         *)
(* Time.  performance.now() is kept relative to lastTimeRef.current and    *)
(* counted in whole seconds, the period of the sampler.                    *)
(***************************************************************************)
EXTENDS Integers, Sequences, FiniteSets, TLC

VARIABLES
    \* ---- pure-function harness (nms called on an arbitrary batch) ----
    dets,          \* the batch handed to nms
    iouThresh,     \* the threshold handed to nms
    kept,          \* the result of nms, as indices into dets (object identity)
    nmsPc,         \* "idle" | "input" | "done"
    \* ---- pure-function harness (iou called on an arbitrary pair) ----
    iouArgs,       \* <<>>, or the pair of boxes <<a, b>>
    iouRet,        \* NoCall, or the values of iou(a, b), iou(b, a), iou(a, a)
    \* ---- pure-function harness (the label placement of the draw step) ----
    labelArgs,     \* the box top y in pixels and the canvas width
    labelRet,      \* NoCall, or the label height and top, in 1/500 pixel
    \* ---- useObjectDetection: React state ----
    model,         \* "null" | "loaded"
    modelLoading,
    detecting,
    detections,    \* the batch last stored by setDetections
    fps,           \* the value last stored by setFps
    error,         \* "null" or the message
    \* ---- useObjectDetection: refs ----
    animFrameRef,  \* 0, or the session whose loop made the last requestAnimationFrame call
    fpsFrames,     \* fpsFrames.current
    fpsInterval,   \* 0, or the session whose setInterval call was the last one
    sinceLast,     \* performance.now() - lastTimeRef.current, in whole seconds
    \* ---- host callbacks and promises ----
    loadPending,   \* loadModel is awaiting tf.ready / cocoSsd.load
    loops,         \* per session: "none" | "scheduled" (requestAnimationFrame
                   \* pending) | "running" (awaiting model.detect)
    timers,        \* per session: "off" | "waiting" | "due" (its setInterval timer)
    canvas,        \* what the render surface shows
    \* ---- Index page ----
    mounted,
    cameraOn,
    cameraError,
    pendingCamera  \* startCamera calls awaiting getUserMedia / play

nmsVars   == <<dets, iouThresh, kept, nmsPc>>
iouVars   == <<iouArgs, iouRet>>
labelVars == <<labelArgs, labelRet>>
pureVars  == <<nmsVars, iouVars, labelVars>>

stateVars == <<model, modelLoading, detecting, detections, fps, error>>
refVars   == <<animFrameRef, fpsFrames, fpsInterval, sinceLast>>
hostVars  == <<loadPending, loops, timers, canvas>>
pageVars  == <<mounted, cameraOn, cameraError, pendingCamera>>

hookVars == <<stateVars, refVars, hostVars, pageVars>>

vars == <<pureVars, hookVars>>

----------------------------------------------------------------------------
(* Bounds and input domains *)

MaxLen == 3

Classes == {"person", "dog"}
Scores  == {30, 80, 90}

\* [x, y, w, h]
Box(x, y, w, h) == <<x, y, w, h>>

Boxes ==
    { Box(0, 0, 2, 2),     \* b1
      Box(0, 0, 2, 3),     \* b2: iou(b1, b2) = 4/6
      Box(1, 1, 2, 2),     \* b3: iou(b1, b3) = 1/7, iou(b2, b3) = 2/8
      Box(0, 0, 0, 2) }    \* zero-area box

\* 3/16 lies between iou(b1, b3) and iou(b2, b3)
Thresholds == { <<0, 1>>, <<3, 16>>, <<1, 2>>, <<1, 1>> }

DetectionDomain == [class : Classes, score : Scores, bbox : Boxes]

----------------------------------------------------------------------------
(* Program constants *)

MIN_SCORE == 45
MAX_DETECTIONS == 20
NMS_IOU_THRESHOLD == <<1, 2>>

----------------------------------------------------------------------------
(* iou *)

Max(a, b) == IF a >= b THEN a ELSE b
Min(a, b) == IF a <= b THEN a ELSE b

NaN == [kind |-> "NaN", n |-> 0, d |-> 0]
Num(n, d) == [kind |-> "num", n |-> n, d |-> d]

\* iou with the first box's area as the denominator
iouOverFirst(a, b) ==
    LET x1 == Max(a[1], b[1])
        y1 == Max(a[2], b[2])
        x2 == Min(a[1] + a[3], b[1] + b[3])
        y2 == Min(a[2] + a[4], b[2] + b[4])
        inter == Max(0, x2 - x1) * Max(0, y2 - y1)
        areaA == a[3] * a[4]
    IN  IF areaA = 0 THEN NaN ELSE Num(inter, areaA)

\* inter / (areaA + areaB - inter) in doubles: 0/0 is NaN; a positive
\* numerator over 0 cannot occur (inter <= areaA and inter <= areaB).
iou(a, b) ==
    LET x1 == Max(a[1], b[1])
        y1 == Max(a[2], b[2])
        x2 == Min(a[1] + a[3], b[1] + b[3])
        y2 == Min(a[2] + a[4], b[2] + b[4])
        inter == Max(0, x2 - x1) * Max(0, y2 - y1)
        areaA == a[3] * a[4]
        areaB == b[3] * b[4]
        union == areaA + areaB - inter
    IN  IF union = 0 THEN NaN ELSE Num(inter, union)

\* v > t and v <= t on doubles (false when v is NaN)
Gt(v, t)  == v.kind = "num" /\ v.n * t[2] > t[1] * v.d
Leq(v, t) == v.kind = "num" /\ v.n * t[2] <= t[1] * v.d

----------------------------------------------------------------------------
(* nms, on indices into the batch *)

\* Object.keys(byClass): class names in order of first appearance
RECURSIVE ClassKeys(_, _)
ClassKeys(ds, i) ==
    IF i > Len(ds) THEN <<>>
    ELSE IF \E j \in 1..(i - 1) : ds[j].class = ds[i].class
         THEN ClassKeys(ds, i + 1)
         ELSE <<ds[i].class>> \o ClassKeys(ds, i + 1)

\* a grouping that ignores the class key: every detection lands in every group
GroupIgnoringClass(ds, cls, i) == [k \in 1..Len(ds) |-> k]

\* byClass[cls]: the indices of the detections of class cls, in input order
RECURSIVE Group(_, _, _)
Group(ds, cls, i) ==
    IF i > Len(ds) THEN <<>>
    ELSE IF ds[i].class = cls
         THEN <<i>> \o Group(ds, cls, i + 1)
         ELSE Group(ds, cls, i + 1)

\* a comparator that sorts ascending: (a, b) => a.score - b.score
CompareAscending(ds, a, b) == ds[a].score - ds[b].score

\* comparator (a, b) => b.score - a.score: negative means a goes first
Compare(ds, a, b) == ds[b].score - ds[a].score

\* an insertion that puts x before the elements it ties with (not stable)
RECURSIVE InsertUnstable(_, _, _)
InsertUnstable(ds, s, x) ==
    IF s = <<>> THEN <<x>>
    ELSE IF Compare(ds, Head(s), x) < 0
         THEN <<Head(s)>> \o InsertUnstable(ds, Tail(s), x)
         ELSE <<x>> \o s

\* insert index x into the sorted sequence s after every element that does
\* not have to come after it (stable)
RECURSIVE InsertSorted(_, _, _)
InsertSorted(ds, s, x) ==
    IF s = <<>> THEN <<x>>
    ELSE IF Compare(ds, Head(s), x) <= 0
         THEN <<Head(s)>> \o InsertSorted(ds, Tail(s), x)
         ELSE <<x>> \o s

\* Array.prototype.sort with the comparator: descending by score, stable
RECURSIVE SortByScore(_, _)
SortByScore(ds, g) ==
    IF g = <<>> THEN <<>>
    ELSE InsertSorted(ds, SortByScore(ds, SubSeq(g, 1, Len(g) - 1)), g[Len(g)])

\* the inner j loop: positions j > i of sorted whose box overlaps sorted[i]
Suppressed(ds, sorted, i, t) ==
    { j \in (i + 1)..Len(sorted) :
        Gt(iou(ds[sorted[i]].bbox, ds[sorted[j]].bbox), t) }

\* the outer i loop over one class
RECURSIVE Greedy(_, _, _, _, _)
Greedy(ds, sorted, i, suppress, t) ==
    IF i > Len(sorted) THEN <<>>
    ELSE IF i \in suppress
         THEN Greedy(ds, sorted, i + 1, suppress, t)
         ELSE <<sorted[i]>> \o
              Greedy(ds, sorted, i + 1,
                     suppress \cup Suppressed(ds, sorted, i, t), t)

KeepClass(ds, cls, t) == Greedy(ds, SortByScore(ds, Group(ds, cls, 1)), 1, {}, t)

RECURSIVE KeepAll(_, _, _)
KeepAll(ds, keys, t) ==
    IF keys = <<>> THEN <<>>
    ELSE KeepClass(ds, Head(keys), t) \o KeepAll(ds, Tail(keys), t)

\* nms, result as indices into ds
nmsIdx(ds, t) == KeepAll(ds, ClassKeys(ds, 1), t)

\* nms, result as detections
nms(ds, t) == LET k == nmsIdx(ds, t) IN [i \in 1..Len(k) |-> ds[k[i]]]

----------------------------------------------------------------------------
(* The detection session: useObjectDetection driven by the Index page *)

MaxSessions == 2     \* startDetection calls whose loop or timer is still live
MaxFrames   == 2     \* cap of fpsFrames.current
MaxElapsed  == 2     \* cap of the seconds since lastTimeRef.current

Sessions == 1..MaxSessions

NULL == "null"
LoadErrorMsg   == "Failed to load AI model. Please refresh."
CameraErrorMsg == "Camera access denied. Please allow camera permissions."

\* model.detect(video, MAX_DETECTIONS, MIN_SCORE) resolves with at most
\* MAX_DETECTIONS detections, each of score >= MIN_SCORE
DetectorOutput(b) ==
    /\ Len(b) <= MAX_DETECTIONS
    /\ \A i \in 1..Len(b) : b[i].score >= MIN_SCORE

SampleBatches ==
    { <<>>,
      << [class |-> "person", score |-> 90, bbox |-> Box(0, 0, 2, 2)],
         [class |-> "person", score |-> 80, bbox |-> Box(0, 0, 2, 3)],
         [class |-> "dog",    score |-> 80, bbox |-> Box(0, 0, 2, 2)] >>,
      << [class |-> "dog",    score |-> 30, bbox |-> Box(1, 1, 2, 2)] >>,
      << [class |-> "person", score |-> 80, bbox |-> Box(0, 0, 0, 2)],
         [class |-> "person", score |-> 80, bbox |-> Box(0, 0, 0, 2)] >> }

RawBatches == { b \in SampleBatches : DetectorOutput(b) }

\* the values of fps: a number, or the NaN / Infinity a division by 0 gives
FpsNum(n)   == [kind |-> "num", v |-> n]
FpsNaN      == [kind |-> "NaN", v |-> 0]
FpsInfinity == [kind |-> "Infinity", v |-> 0]

\* Math.round(frames / elapsed)
RoundedRate(frames, elapsed) ==
    IF elapsed = 0
    THEN IF frames = 0 THEN FpsNaN ELSE FpsInfinity
    ELSE FpsNum((2 * frames + elapsed) \div (2 * elapsed))

\* a React state setter: ignored once the component has been unmounted (the
\* loadModel effect also tests its own cancelled flag, set by the unmount)
SetState(cur, new) == IF mounted THEN new ELSE cur

\* the render surface
BlankCanvas == [size |-> "default", frame |-> FALSE, boxes |-> <<>>]
\* canvas.width = ..., canvas.height = ... (which clears the surface), then
\* drawImage of the mirrored frame
FrameCanvas == [size |-> "video", frame |-> TRUE, boxes |-> <<>>]

InitHook ==
    /\ model = NULL
    /\ modelLoading = TRUE
    /\ detecting = FALSE
    /\ detections = <<>>
    /\ fps = FpsNum(0)
    /\ error = NULL
    /\ animFrameRef = 0
    /\ fpsFrames = 0
    /\ fpsInterval = 0
    /\ sinceLast = 0
    /\ loadPending = TRUE
    /\ loops = [s \in Sessions |-> "none"]
    /\ timers = [s \in Sessions |-> "off"]
    /\ canvas = BlankCanvas
    /\ mounted = TRUE
    /\ cameraOn = FALSE
    /\ cameraError = NULL
    /\ pendingCamera = 0

\* the harnesses at rest
NoCall == [kind |-> "none"]

IdleNms ==
    /\ dets = <<>>
    /\ iouThresh = NMS_IOU_THRESHOLD
    /\ kept = <<>>
    /\ nmsPc = "idle"

IdleIou == iouArgs = <<>> /\ iouRet = NoCall

IdleLabel == labelArgs = [y |-> 0, width |-> 0] /\ labelRet = NoCall

Init ==
    /\ IdleNms
    /\ IdleIou
    /\ IdleLabel
    /\ InitHook

\* ---- loadModel ----

LoadResolve ==
    /\ loadPending
    /\ loadPending' = FALSE
    /\ model' = SetState(model, "loaded")
    /\ modelLoading' = SetState(modelLoading, FALSE)
    /\ UNCHANGED <<detecting, detections, fps, error, refVars, loops, timers,
                   canvas, pageVars, pureVars>>

LoadReject ==
    /\ loadPending
    /\ loadPending' = FALSE
    /\ error' = SetState(error, LoadErrorMsg)
    /\ modelLoading' = SetState(modelLoading, FALSE)
    /\ UNCHANGED <<model, detecting, detections, fps, refVars, loops, timers,
                   canvas, pageVars, pureVars>>

\* ---- host primitives ----

\* cancelAnimationFrame(h): removes the callback of handle h if it is still
\* pending; a handle that has fired, or 0, cancels nothing
CancelAnimationFrame(ls, h) ==
    IF h # 0 /\ ls[h] = "scheduled" THEN [ls EXCEPT ![h] = "none"] ELSE ls

\* clearInterval(h)
ClearInterval(ts, h) ==
    IF h # 0 /\ ts[h] \in {"waiting", "due"} THEN [ts EXCEPT ![h] = "off"] ELSE ts

\* the session slots in use by no startDetection call: neither a loop
\* callback nor a timer of the slot is left
FreeSessions == { s \in Sessions : loops[s] = "none" /\ timers[s] = "off" }
NewSession == CHOOSE s \in FreeSessions : \A t \in FreeSessions : s <= t

InFlight == { s \in Sessions : loops[s] = "running" }

\* ---- startDetection ----

\* startDetection without the "if (!model) return" guard
startDetectionUnguarded ==
    /\ detecting' = SetState(detecting, TRUE)
    /\ error' = SetState(error, NULL)
    /\ fpsFrames' = 0
    /\ sinceLast' = 0
    /\ timers' = [timers EXCEPT ![NewSession] = "waiting"]
    /\ fpsInterval' = NewSession
    /\ loops' = [loops EXCEPT ![NewSession] = "scheduled"]
    /\ animFrameRef' = NewSession

\* the effect of startDetection(video, canvas)
startDetection ==
    IF model = NULL
    THEN UNCHANGED <<detecting, error, refVars, loops, timers>>
    ELSE /\ detecting' = SetState(detecting, TRUE)
         /\ error' = SetState(error, NULL)
         /\ fpsFrames' = 0
         /\ sinceLast' = 0
         /\ timers' = [timers EXCEPT ![NewSession] = "waiting"]
         /\ fpsInterval' = NewSession
         /\ loops' = [loops EXCEPT ![NewSession] = "scheduled"]
         /\ animFrameRef' = NewSession

\* ---- stopDetection ----

stopDetection ==
    /\ loops' = CancelAnimationFrame(loops, animFrameRef)
    /\ timers' = ClearInterval(timers, fpsInterval)
    /\ detecting' = SetState(detecting, FALSE)
    /\ detections' = SetState(detections, <<>>)
    /\ fps' = SetState(fps, FpsNum(0))

\* ---- Index page ----

\* a click on "Start Detection": startCamera up to its first await
StartCameraClick ==
    /\ mounted /\ ~cameraOn /\ ~modelLoading
    /\ pendingCamera < Cardinality(FreeSessions)
    /\ cameraError' = NULL
    /\ pendingCamera' = pendingCamera + 1
    /\ UNCHANGED <<stateVars, refVars, hostVars, mounted, cameraOn, pureVars>>

\* getUserMedia and play resolve: the rest of startCamera's try block.
\* After unmount videoRef.current is null and nothing happens.
StartCameraResolve ==
    /\ pendingCamera > 0
    /\ pendingCamera' = pendingCamera - 1
    /\ IF mounted
       THEN /\ cameraOn' = TRUE
            /\ startDetection
       ELSE UNCHANGED <<cameraOn, detecting, error, refVars, loops, timers>>
    /\ UNCHANGED <<model, modelLoading, detections, fps, loadPending, canvas,
                   mounted, cameraError, pureVars>>

\* getUserMedia or play rejects: startCamera's catch block
StartCameraReject ==
    /\ pendingCamera > 0
    /\ pendingCamera' = pendingCamera - 1
    /\ cameraError' = SetState(cameraError, CameraErrorMsg)
    /\ UNCHANGED <<stateVars, refVars, hostVars, mounted, cameraOn, pureVars>>

\* a click on "Stop Detection"
stopCamera ==
    /\ mounted /\ cameraOn
    /\ stopDetection
    /\ cameraOn' = FALSE
    /\ UNCHANGED <<model, modelLoading, error, refVars, loadPending, canvas,
                   mounted, cameraError, pendingCamera, pureVars>>

\* unmount: the cleanups of the hook's effects (cancelled = true;
\* cancelAnimationFrame and clearInterval on the two refs) and of the page's
\* effect (stopDetection, which cancels and clears the same two handles
\* again, to no effect, and calls the three setters)
Unmount ==
    /\ mounted
    /\ mounted' = FALSE
    /\ stopDetection
    /\ UNCHANGED <<model, modelLoading, error, refVars, loadPending, canvas,
                   cameraOn, cameraError, pendingCamera, pureVars>>

\* ---- loop ----

\* a loop whose frame count sits outside the readyState test
TickNoFrameCounts(s) ==
    /\ loops[s] = "scheduled"
    /\ fpsFrames' = fpsFrames + 1
    /\ loops' = [loops EXCEPT ![s] = "scheduled"]
    /\ animFrameRef' = s
    /\ UNCHANGED <<stateVars, fpsInterval, sinceLast, loadPending, timers,
                   canvas, pageVars, pureVars>>

\* a tick while video.readyState < 2: only the next tick is requested
TickNoFrame(s) ==
    /\ loops[s] = "scheduled"
    /\ loops' = [loops EXCEPT ![s] = "scheduled"]
    /\ animFrameRef' = s
    /\ UNCHANGED <<stateVars, fpsFrames, fpsInterval, sinceLast, loadPending,
                   timers, canvas, pageVars, pureVars>>

\* a tick that draws the frame over the old surface without resizing it
TickFrameKeepsOverlay(s) ==
    /\ loops[s] = "scheduled"
    /\ fpsFrames + Cardinality(InFlight) < MaxFrames
    /\ canvas' = [canvas EXCEPT !.size = "video", !.frame = TRUE]
    /\ loops' = [loops EXCEPT ![s] = "running"]
    /\ UNCHANGED <<stateVars, refVars, loadPending, timers, pageVars, pureVars>>

\* a tick with a frame available, up to the await of model.detect
TickFrame(s) ==
    /\ loops[s] = "scheduled"
    /\ fpsFrames + Cardinality(InFlight) < MaxFrames
    /\ canvas' = FrameCanvas
    /\ loops' = [loops EXCEPT ![s] = "running"]
    /\ UNCHANGED <<stateVars, refVars, loadPending, timers, pageVars, pureVars>>

\* model.detect resolves with raw: the rest of the try block, then the
\* frame count and the request of the next tick
DetectResolve(s) ==
    /\ loops[s] = "running"
    /\ \E raw \in RawBatches :
         LET results == nms(raw, NMS_IOU_THRESHOLD) IN
         /\ detections' = SetState(detections, results)
         /\ canvas' = [canvas EXCEPT !.boxes = results]
    /\ fpsFrames' = fpsFrames + 1
    /\ loops' = [loops EXCEPT ![s] = "scheduled"]
    /\ animFrameRef' = s
    /\ UNCHANGED <<model, modelLoading, detecting, fps, error, fpsInterval,
                   sinceLast, loadPending, timers, pageVars, pureVars>>

\* a catch block that clears the detections
DetectRejectClears(s) ==
    /\ loops[s] = "running"
    /\ detections' = SetState(detections, <<>>)
    /\ fpsFrames' = fpsFrames + 1
    /\ loops' = [loops EXCEPT ![s] = "scheduled"]
    /\ animFrameRef' = s
    /\ UNCHANGED <<model, modelLoading, detecting, fps, error, fpsInterval,
                   sinceLast, loadPending, timers, canvas, pageVars, pureVars>>

\* a rejection that escapes the loop: the next tick is never requested
DetectRejectEndsLoop(s) ==
    /\ loops[s] = "running"
    /\ loops' = [loops EXCEPT ![s] = "none"]
    /\ UNCHANGED <<stateVars, refVars, loadPending, timers, canvas, pageVars,
                   pureVars>>

\* a catch block that reports the failure through setError
DetectRejectSetsError(s) ==
    /\ loops[s] = "running"
    /\ error' = SetState(error, "Detection failed")
    /\ fpsFrames' = fpsFrames + 1
    /\ loops' = [loops EXCEPT ![s] = "scheduled"]
    /\ animFrameRef' = s
    /\ UNCHANGED <<model, modelLoading, detecting, detections, fps,
                   fpsInterval, sinceLast, loadPending, timers, canvas,
                   pageVars, pureVars>>

\* model.detect rejects: the empty catch block, then the frame count and the
\* request of the next tick
DetectReject(s) ==
    /\ loops[s] = "running"
    /\ fpsFrames' = fpsFrames + 1
    /\ loops' = [loops EXCEPT ![s] = "scheduled"]
    /\ animFrameRef' = s
    /\ UNCHANGED <<stateVars, fpsInterval, sinceLast, loadPending, timers,
                   canvas, pageVars, pureVars>>

\* ---- the fps sampler ----

\* the setInterval callback of session s
Sampler(s) ==
    /\ timers[s] = "due"
    /\ fps' = SetState(fps, RoundedRate(fpsFrames, sinceLast))
    /\ fpsFrames' = 0
    /\ sinceLast' = 0
    /\ timers' = [timers EXCEPT ![s] = "waiting"]
    /\ UNCHANGED <<model, modelLoading, detecting, detections, error,
                   animFrameRef, fpsInterval, loadPending, loops, canvas,
                   pageVars, pureVars>>

\* one second passes: every waiting timer becomes due (the clock is read
\* only by a sampler, so time is left alone while no timer is live)
Advance ==
    /\ sinceLast < MaxElapsed
    /\ \E s \in Sessions : timers[s] \in {"waiting", "due"}
    /\ sinceLast' = sinceLast + 1
    /\ timers' = [s \in Sessions |->
                    IF timers[s] = "waiting" THEN "due" ELSE timers[s]]
    /\ UNCHANGED <<stateVars, animFrameRef, fpsFrames, fpsInterval,
                   loadPending, loops, canvas, pageVars, pureVars>>

Next ==
    \/ LoadResolve
    \/ LoadReject
    \/ StartCameraClick
    \/ StartCameraResolve
    \/ StartCameraReject
    \/ stopCamera
    \/ Unmount
    \/ \E s \in Sessions : TickNoFrame(s)
    \/ \E s \in Sessions : TickFrame(s)
    \/ \E s \in Sessions : DetectResolve(s)
    \/ \E s \in Sessions : DetectReject(s)
    \/ \E s \in Sessions : Sampler(s)
    \/ Advance

Spec == Init /\ [][Next]_vars

\* every model.detect call settles
DetectSettle(s) == DetectResolve(s) \/ DetectReject(s)

SpecLive == Spec /\ \A s \in Sessions : WF_vars(DetectSettle(s))

----------------------------------------------------------------------------
(* Properties of the detection session *)

\* the session is stopped: a stop command was the last command
Stopped == mounted /\ ~detecting
\* the session is running: started with a loaded model and not stopped
Running == mounted /\ detecting

\* s is the only session with a loop callback left
OnlyLoop(s) == \A t \in Sessions \ {s} : loops[t] = "none"

\* C2: after stop() is called while a detect call is in flight, no tick is
\* scheduled before the next start command: when the call settles in the
\* stopped session, its loop requests no tick.
C2_NoTickAfterStopInFlight ==
    [][\A s \in Sessions :
         (Stopped /\ DetectSettle(s)) => loops'[s] # "scheduled"]_vars

\* C3: at most one detect call is in flight.
C3_AtMostOneInFlight == Cardinality(InFlight) <= 1

\* C4: while the session is running, a tick with no frame, a resolved
\* detect call and a rejected detect call each end with the next tick
\* scheduled, and no loop of a running session stays in its detect call for
\* ever (every detect call settles: weak fairness of DetectSettle).
C4_TickAlwaysRescheduled ==
    /\ \A s \in Sessions : []<>(~Running \/ loops[s] # "running")
    /\ [][\A s \in Sessions :
            (Running /\ (TickNoFrame(s) \/ DetectSettle(s)))
                => loops'[s] = "scheduled"]_vars

\* a frame tick of the running session has completed and the next is scheduled
C4_Witness ==
    /\ Running
    /\ fpsFrames > 0
    /\ \E s \in Sessions : loops[s] = "scheduled" /\ animFrameRef = s

\* C5: a rejected detect call of a running session leaves detections as it
\* was, leaves error unset, and schedules the next tick.
C5_RejectKeepsDetections ==
    [][\A s \in Sessions :
         (Running /\ DetectReject(s))
             => /\ detections' = detections
                /\ error' = NULL
                /\ loops'[s] = "scheduled"]_vars

\* the only session has drawn a frame, its detect call has rejected and the
\* detections of an earlier successful tick are still stored
C5_Witness ==
    /\ Running
    /\ OnlyLoop(1)
    /\ loops[1] = "scheduled"
    /\ canvas = FrameCanvas
    /\ detections # <<>>
    /\ error = NULL

\* C6: from stop() to the next start command detections is empty and fps is
\* 0, also after a detect call that was in flight resolves.
C6_StaleResultDiscarded ==
    Stopped => (detections = <<>> /\ fps = FpsNum(0))

\* C9: after a tick whose detect call fails, the surface shows the overlay of
\* the previous successful tick, that is the boxes of the stored detections.
C9_OverlayKeptOnFailure ==
    [][\A s \in Sessions :
         (Running /\ DetectReject(s) /\ detections # <<>>)
             => canvas'.boxes = detections]_vars

\* C9 as amended: a tick with a frame clears the surface and draws the
\* mirrored frame before it calls detect, so the boxes drawn before the tick
\* are gone, and a rejected detect call draws nothing.
C9_FailedTickShowsBareFrame ==
    [][\A s \in Sessions :
         /\ TickFrame(s) => (canvas'.frame /\ canvas'.boxes = <<>>)
         /\ DetectReject(s) => canvas' = canvas]_vars

\* the only session has failed a tick after a successful one: the stored
\* detections are not on the surface
C9_Witness ==
    /\ Running
    /\ OnlyLoop(1)
    /\ loops[1] = "scheduled"
    /\ detections # <<>>
    /\ canvas.frame /\ canvas.boxes = <<>>

\* C10: after stop() no sampling interval is live until the next start.
C10_NoSamplerAfterStop ==
    Stopped => \A s \in Sessions : timers[s] = "off"

\* C11: after the unmount cleanup no tick handle and no sampling interval is
\* live, whatever the session was doing at the unmount.
C11_NothingLiveAfterUnmount ==
    ~mounted => \A s \in Sessions : loops[s] # "scheduled" /\ timers[s] = "off"

\* the model load has failed (and the component was still mounted)
LoadFailed == error = LoadErrorMsg

\* C12: the load is not retried, and a failed load is terminal: the model
\* stays absent, the message stays set, and no start command has any effect
\* (detecting false, no tick, no sampler, no detect call).
C12_LoadFailureTerminal ==
    /\ [](LoadFailed =>
            /\ model = NULL /\ ~loadPending /\ ~detecting
            /\ \A s \in Sessions : loops[s] = "none" /\ timers[s] = "off")
    /\ [][(LoadFailed => LoadFailed') /\ (~loadPending => ~loadPending')]_vars

\* a start command has been given after the load failed
C12_Witness ==
    /\ LoadFailed
    /\ cameraOn
    /\ ~detecting
    /\ \A s \in Sessions : loops[s] = "none" /\ timers[s] = "off"

\* a start command that takes effect: startCamera reaches startDetection
\* with the model loaded
StartTakesEffect == StartCameraResolve /\ mounted /\ model # NULL

\* C13: error is set only when the model load failed; only the load failure
\* sets it, only a start command clears it, and it is empty after every
\* start command that takes effect.
C13_ErrorOnlyFromLoadFailure ==
    /\ [](/\ error \in {NULL, LoadErrorMsg}
          /\ error # NULL => (model = NULL /\ ~loadPending))
    /\ [][/\ (error' # error /\ error' # NULL) => LoadReject
          /\ (error' # error /\ error' = NULL) => StartTakesEffect
          /\ StartTakesEffect => error' = NULL]_vars

\* a running session whose detect call has rejected and whose sampler has
\* fired, with error still empty
C13_Witness ==
    /\ Running
    /\ error = NULL
    /\ fps # FpsNum(0)
    /\ fpsFrames > 0
    /\ canvas = FrameCanvas
    /\ \E s \in Sessions : loops[s] = "scheduled" /\ OnlyLoop(s)

\* C17: a sampler firing sets fps to the rounded rate of the counter over
\* the elapsed time and resets the counter; while a session runs the counter
\* grows by exactly one per settled frame tick of that session and by
\* nothing else, so fps counts the current session's ticks only.
C17_FpsCountsCurrentSession ==
    [][\A s \in Sessions :
         /\ Sampler(s) =>
               /\ fps' = SetState(fps, RoundedRate(fpsFrames, sinceLast))
               /\ fpsFrames' = 0
         /\ (Running /\ DetectSettle(s)) =>
               /\ s = fpsInterval
               /\ fpsFrames' = fpsFrames + 1]_vars

\* the batches a successful tick can publish
Published == { nms(raw, NMS_IOU_THRESHOLD) : raw \in RawBatches }

\* C18: detections is empty or the nms result of one detect call, any two
\* detections of it with the same class have iou <= 0.5, and it changes
\* only by a successful tick replacing it or a stop emptying it.
C18_DetectionsPostSuppression ==
    /\ [](/\ detections \in Published \cup {<<>>}
          /\ \A i, j \in 1..Len(detections) :
                (i < j /\ detections[i].class = detections[j].class)
                  => Leq(iou(detections[i].bbox, detections[j].bbox),
                         NMS_IOU_THRESHOLD))
    /\ [][detections' # detections =>
            \/ \E s \in Sessions : DetectResolve(s)
            \/ (stopDetection /\ detections' = <<>>)]_vars

\* C19: a tick without a frame only requests the next tick: no detect call,
\* no resize or draw, and detections, fps, error and the frame counter
\* unchanged.
C19_NoFrameTickOnlyReschedules ==
    [][\A s \in Sessions :
         TickNoFrame(s) =>
           /\ loops' = loops
           /\ InFlight' = InFlight
           /\ UNCHANGED <<canvas, detections, fps, error, fpsFrames>>
           /\ UNCHANGED <<model, modelLoading, detecting, fpsInterval,
                          sinceLast, timers>>]_vars

\* the first of two live loops has ticked without a frame after the second
\* start: its handle is the last one requested and the surface is untouched
C19_Witness ==
    /\ mounted
    /\ canvas = BlankCanvas
    /\ fpsInterval = 2
    /\ animFrameRef = 1
    /\ loops[1] = "scheduled"
    /\ fpsFrames = 0

----------------------------------------------------------------------------
(* Harness: nms applied to every batch of the domain *)

Batches == UNION { [1..n -> DetectionDomain] : n \in 0..MaxLen }

InitNms ==
    /\ dets \in Batches
    /\ iouThresh \in Thresholds
    /\ kept = <<>>
    /\ nmsPc = "input"
    /\ IdleIou
    /\ IdleLabel
    /\ InitHook

CallNms ==
    /\ nmsPc = "input"
    /\ kept' = nmsIdx(dets, iouThresh)
    /\ nmsPc' = "done"
    /\ UNCHANGED <<dets, iouThresh, iouVars, labelVars, hookVars>>

NextNms == CallNms

SpecNms == InitNms /\ [][NextNms]_vars

----------------------------------------------------------------------------
(* Harness: iou applied to every pair of boxes of a small grid *)

MaxCoord == 2

\* the boxes with corner and extent on the grid, zero extents included
IouBoxes ==
    { Box(x, y, w, h) : x \in 0..MaxCoord, y \in 0..MaxCoord,
                        w \in 0..MaxCoord, h \in 0..MaxCoord }

InitIou ==
    /\ iouArgs \in IouBoxes \X IouBoxes
    /\ iouRet = NoCall
    /\ IdleNms
    /\ IdleLabel
    /\ InitHook

CallIou ==
    /\ iouRet = NoCall
    /\ iouRet' = [kind |-> "done",
                  ab |-> iou(iouArgs[1], iouArgs[2]),
                  ba |-> iou(iouArgs[2], iouArgs[1]),
                  aa |-> iou(iouArgs[1], iouArgs[1])]
    /\ UNCHANGED <<iouArgs, nmsVars, labelVars, hookVars>>

NextIou == CallIou

SpecIou == InitIou /\ [][NextIou]_vars

----------------------------------------------------------------------------
(* Harness: the label placement of the draw step *)

\* the divisor of the scale: lengths are kept in 1/ScaleBase pixel
ScaleBase == 500

MaxLabelY == 30

CanvasWidths == {320, 500, 640, 1280}
LabelYs == (0 - MaxLabelY)..MaxLabelY

\* fontSize = Math.max(12, 14 * scale) with scale = canvas.width / 500
FontSize(width) == Max(12 * ScaleBase, 14 * width)

\* th = fontSize + 8
LabelHeight(width) == FontSize(width) + 8 * ScaleBase

\* a label always put above the box
LabelTopAbove(y, th) == y - th

\* ly = y > th ? y - th : y
LabelTop(y, th) == IF y > th THEN y - th ELSE y

InitLabel ==
    /\ labelArgs \in [y : LabelYs, width : CanvasWidths]
    /\ labelRet = NoCall
    /\ IdleNms
    /\ IdleIou
    /\ InitHook

DrawLabel ==
    /\ labelRet = NoCall
    /\ LET th == LabelHeight(labelArgs.width) IN
         labelRet' = [kind |-> "drawn",
                      th |-> th,
                      ly |-> LabelTop(labelArgs.y * ScaleBase, th)]
    /\ UNCHANGED <<labelArgs, nmsVars, iouVars, hookVars>>

NextLabel == DrawLabel

SpecLabel == InitLabel /\ [][NextLabel]_vars

----------------------------------------------------------------------------
(* Properties of nms *)

Range(f) == { f[i] : i \in DOMAIN f }

KeptSet == Range(kept)
Dropped == (1..Len(dets)) \ KeptSet

IouOf(i, j) == iou(dets[i].bbox, dets[j].bbox)

\* C1: the result of nms holds only detections of the input, each at most
\* once, and any two distinct kept detections of one class have iou <= t.
C1_SubsetAndPairwiseLeq ==
    nmsPc = "done" =>
        /\ KeptSet \subseteq 1..Len(dets)
        /\ Cardinality(KeptSet) = Len(kept)
        /\ \A i, j \in KeptSet :
              (i # j /\ dets[i].class = dets[j].class)
                  => Leq(IouOf(i, j), iouThresh)

\* k comes before d in the order nms uses: higher score, or the same score
\* and earlier in the input
Beats(k, d) ==
    \/ dets[k].score > dets[d].score
    \/ dets[k].score = dets[d].score /\ k < d

\* the batch of Scenario C at positions i, j, k
ScenarioC(i, j, k) ==
    /\ Len(dets) = 3 /\ {i, j, k} = 1..3
    /\ dets[i].class = dets[j].class /\ dets[j].class = dets[k].class
    /\ dets[i].score = 90 /\ dets[j].score = 80 /\ dets[k].score = 30
    /\ Gt(IouOf(i, j), iouThresh)
    /\ Leq(IouOf(i, k), iouThresh)
    /\ Leq(IouOf(j, k), iouThresh)

\* C7: every detection nms drops has a kept detection of its class that
\* overlaps it by more than t and beats it (higher score, or equal score and
\* earlier in the input); in Scenario C exactly the 0.9 and the 0.3
\* detections are kept.
C7_DroppedOnlyByKeptBetter ==
    nmsPc = "done" =>
        /\ \A d \in Dropped :
              \E k \in KeptSet :
                  /\ dets[k].class = dets[d].class
                  /\ Gt(IouOf(k, d), iouThresh)
                  /\ Beats(k, d)
        /\ \A i, j, k \in 1..Len(dets) :
              ScenarioC(i, j, k) => KeptSet = {i, k}

C7_Witness ==
    /\ nmsPc = "done"
    /\ iouThresh = NMS_IOU_THRESHOLD
    /\ \E i, j, k \in 1..Len(dets) : ScenarioC(i, j, k) /\ Dropped = {j}

\* i and j are a tie: same class, same score, overlap above the threshold,
\* i earlier in the input
Tie(i, j) ==
    /\ i < j
    /\ dets[i].class = dets[j].class
    /\ dets[i].score = dets[j].score
    /\ Gt(IouOf(i, j), iouThresh)

\* a kept detection with a higher score overlaps x by more than t
HigherKept(x) ==
    \E k \in KeptSet :
        /\ dets[k].class = dets[x].class
        /\ dets[k].score > dets[x].score
        /\ Gt(IouOf(k, x), iouThresh)

\* a kept detection that beats x (higher score, or same score and earlier)
\* overlaps x by more than t; the other member of the tie is not counted
BeatenByKept(x, i, j) ==
    \E k \in KeptSet \ {i, j} :
        /\ dets[k].class = dets[x].class
        /\ Beats(k, x)
        /\ Gt(IouOf(k, x), iouThresh)

\* C14 as stated: of a tie neither member of which is suppressed by a
\* higher-scoring detection, the earlier is kept and the later dropped.
C14_TieEarlierKept ==
    nmsPc = "done" =>
        \A i, j \in 1..Len(dets) :
            (Tie(i, j) /\ ~HigherKept(i) /\ ~HigherKept(j))
                => (i \in KeptSet /\ j \in Dropped)

\* C14 (amended): of a tie neither member of which is overlapped by more
\* than t by a kept detection that beats it (higher score, or equal score
\* and earlier in the input), the earlier is kept and the later dropped.
C14_TieEarlierKeptUnlessBeaten ==
    nmsPc = "done" =>
        \A i, j \in 1..Len(dets) :
            (Tie(i, j) /\ ~BeatenByKept(i, i, j) /\ ~BeatenByKept(j, i, j))
                => (i \in KeptSet /\ j \in Dropped)

\* two overlapping person detections of score 0.8 after a lower-scoring
\* one: the first of the two is kept, the second dropped
C14_Witness ==
    /\ nmsPc = "done"
    /\ iouThresh = NMS_IOU_THRESHOLD
    /\ Len(dets) = 3
    /\ dets[1].score = 30 /\ dets[2].score = 80
    /\ Tie(2, 3)
    /\ 2 \in KeptSet /\ 3 \in Dropped

\* the positions of the class-c detections of the batch, in input order
RECURSIVE Positions(_, _)
Positions(c, i) ==
    IF i > Len(dets) THEN <<>>
    ELSE IF dets[i].class = c
         THEN <<i>> \o Positions(c, i + 1)
         ELSE Positions(c, i + 1)

\* what nms keeps of the batch that holds only the class-c detections, as
\* positions of the whole batch
KeptAlone(c) ==
    LET pos == Positions(c, 1)
        sub == [i \in 1..Len(pos) |-> dets[pos[i]]]
    IN  { pos[i] : i \in Range(nmsIdx(sub, iouThresh)) }

\* C8: the kept detections of class c are exactly what nms keeps of the
\* class-c detections alone, and every detection is kept at most once.
C8_ClassesIndependent ==
    nmsPc = "done" =>
        /\ Cardinality(KeptSet) = Len(kept)
        /\ \A c \in Classes :
              { i \in KeptSet : dets[i].class = c } = KeptAlone(c)

\* Scenario B: two fully overlapping boxes of different classes, both kept
C8_Witness ==
    /\ nmsPc = "done"
    /\ iouThresh = NMS_IOU_THRESHOLD
    /\ Len(dets) = 2
    /\ dets[1].class = "person" /\ dets[1].score = 90
    /\ dets[2].class = "dog" /\ dets[2].score = 80
    /\ dets[1].bbox = dets[2].bbox
    /\ IouOf(1, 2) = Num(4, 4)
    /\ KeptSet = {1, 2}

----------------------------------------------------------------------------
(* Properties of iou *)

Area(b) == b[3] * b[4]
Positive(b) == b[3] > 0 /\ b[4] > 0

\* the doubles v and w are equal (NaN equals nothing)
SameValue(v, w) ==
    /\ v.kind = "num" /\ w.kind = "num"
    /\ v.n * w.d = w.n * v.d

\* the boxes share no area: apart or touching along an axis, or one of
\* them has no area
NoSharedArea(a, b) ==
    \/ a[1] + a[3] <= b[1] \/ b[1] + b[3] <= a[1]
    \/ a[2] + a[4] <= b[2] \/ b[2] + b[4] <= a[2]
    \/ Area(a) = 0 \/ Area(b) = 0

C16_IouDefinedInUnitInterval ==
    iouRet.kind = "done" =>
        /\ iouRet.ab.kind = "num"
        /\ iouRet.ab.d > 0
        /\ 0 <= iouRet.ab.n /\ iouRet.ab.n <= iouRet.ab.d
        /\ NoSharedArea(iouArgs[1], iouArgs[2]) => iouRet.ab.n = 0

----------------------------------------------------------------------------
(* Properties of the label placement *)

\* C20: for a box top y >= 0 the label background is put at y - th when
\* y > th and at y otherwise, so its top edge is never above the top of
\* the render surface.
C20_LabelTopOnSurface ==
    (labelRet.kind = "drawn" /\ labelArgs.y >= 0) =>
        LET y == labelArgs.y * ScaleBase IN
        /\ y > labelRet.th => labelRet.ly = y - labelRet.th
        /\ y <= labelRet.th => labelRet.ly = y
        /\ labelRet.ly >= 0

\* a box one pixel lower than the label is high: the label sits above the
\* box, one pixel below the top of the surface
C20_Witness ==
    /\ labelRet.kind = "drawn"
    /\ labelArgs = [y |-> 23, width |-> 500]
    /\ labelRet.th = 22 * ScaleBase
    /\ labelRet.ly = ScaleBase

====
